---- MODULE Spec2Model ----
(***************************************************************************)
(* Model of scripts/flash_usb.py: one process run of the flashing tool,    *)
(* from main() to process exit.  The environment (filesystem, serial       *)
(* device, external tools) answers every system call nondeterministically. *)
(***************************************************************************)
EXTENDS Integers, Sequences, FiniteSets, TLC

\* Largest number of positional arguments tried on the command line.
MaxArgs == 2

----------------------------------------------------------------------------
\* Strings whose characters matter are kept as tuples of 1-character strings.

RECURSIVE Join(_)
Join(cs) == IF cs = <<>> THEN "" ELSE Head(cs) \o Join(Tail(cs))

HexDigits == {"0","1","2","3","4","5","6","7","8","9",
              "a","b","c","d","e","f","A","B","C","D","E","F"}
Whitespace == {" ", "\n", "\t"}

RECURSIVE LStrip(_)
LStrip(cs) == IF cs # <<>> /\ Head(cs) \in Whitespace THEN LStrip(Tail(cs)) ELSE cs

RECURSIVE RStrip(_)
RStrip(cs) == IF cs # <<>> /\ cs[Len(cs)] \in Whitespace
              THEN RStrip(SubSeq(cs, 1, Len(cs) - 1)) ELSE cs

\* str.strip()
Strip(cs) == RStrip(LStrip(cs))

\* hexfmt_r.match(s): ^[a-fA-F0-9]{4}:[a-fA-F0-9]{4}$  ($ also matches
\* right before one trailing newline)
HexFmtBody(cs) == /\ Len(cs) = 9
                  /\ \A i \in {1,2,3,4,6,7,8,9} : cs[i] \in HexDigits
                  /\ cs[5] = ":"

HexFmtMatch(cs) == \/ HexFmtBody(cs)
                   \/ /\ Len(cs) = 10
                      /\ cs[10] = "\n"
                      /\ HexFmtBody(SubSeq(cs, 1, 9))

----------------------------------------------------------------------------
\* The device identifiers given with -d.
DevVidPid    == <<"1","d","5","0",":","6","0","1","5">>
DevVidPidUp  == <<"1","E","A","F",":","0","0","0","3">>
DevVidPidSp  == <<" ","1","d","5","0",":","6","0","1","5","\n">>
DevShort     == <<"1","d","5","0",":","6","0","1">>
DevNotHex    == <<"1","g","5","0",":","6","0","1","5">>
DevTty0      == <<"/","d","e","v","/","t","t","y","A","C","M","0">>
DevTty1      == <<"/","d","e","v","/","t","t","y","A","C","M","1">>
DevById      == <<"/","d","e","v","/","k","l","i","p","p","e","r">>
DevVidPidNl  == <<"1","d","5","0",":","6","0","1","5","\n">>
DevEmpty     == <<>>

Devices == {DevVidPid, DevVidPidUp, DevVidPidSp, DevVidPidNl, DevShort, DevNotHex,
            DevTty0, DevTty1, DevById, DevEmpty}

----------------------------------------------------------------------------
\* Filesystem as the program sees it.

ByPathDir == <<"/","d","e","v","/","s","e","r","i","a","l","/",
               "b","y","-","p","a","t","h","/">>
\* Names os.listdir can return, and the tty each symlink points at.
EntryA == <<"u","s","b","-","0",":","1">>
EntryB == <<"u","s","b","-","0",":","2">>
Entries == {EntryA, EntryB}
EntryTarget(e) == IF e = EntryA THEN DevTty0 ELSE DevTty1

Cwd == <<"/","k","/">>

\* os.path.realpath
Realpath(p) ==
    IF p = DevById THEN DevTty0
    ELSE IF \E e \in Entries : p = ByPathDir \o e
         THEN EntryTarget(CHOOSE e \in Entries : p = ByPathDir \o e)
    ELSE IF p # <<>> /\ Head(p) = "/" THEN p
    ELSE IF p = <<>> THEN SubSeq(Cwd, 1, Len(Cwd) - 1)
    ELSE Cwd \o p

\* os.path.basename: what follows the last "/"
RECURSIVE Basename(_)
Basename(p) == IF p = <<>> \/ p[Len(p)] = "/" THEN <<>>
               ELSE Basename(SubSeq(p, 1, Len(p) - 1)) \o <<p[Len(p)]>>

Digits == {"0","1","2","3","4","5","6","7","8","9"}

AllIn(cs, S) == \A i \in 1..Len(cs) : cs[i] \in S
Positions(cs, c) == {i \in 1..Len(cs) : cs[i] = c}
Min(S) == CHOOSE x \in S : \A y \in S : x <= y
Max(S) == CHOOSE x \in S : \A y \in S : x >= y

\* A sysfs link target is a sequence of path segments (split at "/").
\* Segment starting "usb\d+"
IsUsbSeg(seg) == /\ Len(seg) >= 4
                 /\ SubSeq(seg, 1, 3) = <<"u","s","b">>
                 /\ seg[4] \in Digits

\* \d+\.\d+
IsIfaceEp(cs) == /\ Cardinality(Positions(cs, ".")) = 1
                 /\ LET d == Min(Positions(cs, "."))
                    IN /\ d > 1 /\ d < Len(cs)
                       /\ AllIn(SubSeq(cs, 1, d - 1), Digits)
                       /\ AllIn(SubSeq(cs, d + 1, Len(cs)), Digits)

\* \d+-[0-9.]+
IsBusPort(cs) == /\ Positions(cs, "-") # {}
                 /\ LET q == Min(Positions(cs, "-"))
                    IN /\ q > 1 /\ q < Len(cs)
                       /\ AllIn(SubSeq(cs, 1, q - 1), Digits)
                       /\ AllIn(SubSeq(cs, q + 1, Len(cs)), Digits \cup {"."})

\* Whole segment "(?P<path>\d+-[0-9.]+):\d+\.\d+"
IsIfaceSeg(seg) == /\ Cardinality(Positions(seg, ":")) = 1
                   /\ LET c == Min(Positions(seg, ":"))
                      IN /\ IsBusPort(SubSeq(seg, 1, c - 1))
                         /\ IsIfaceEp(SubSeq(seg, c + 1, Len(seg)))

IfacePath(seg) == SubSeq(seg, 1, Min(Positions(seg, ":")) - 1)

\* Segments where ttypath_r can place the group: preceded by a "/usb\d+"
\* segment and followed by "/".
PathSegs(lname) == {j \in 2..(Len(lname) - 1) :
                      /\ IsIfaceSeg(lname[j])
                      /\ \E k \in 2..(j - 1) : IsUsbSeg(lname[k])}

TtyPathMatches(lname) == PathSegs(lname) # {}
\* both ".*" are greedy: the last candidate segment wins
TtyPathGroup(lname) == IfacePath(lname[Max(PathSegs(lname))])

SegDD   == <<".",".">>
SegDev  == <<"d","e","v">>
SegUsb3 == <<"u","s","b","3">>
SegHub  == <<"3","-","1">>
SegIf0  == <<"3","-","1",":","1",".","0">>
SegIf1  == <<"3","-","1",".","2",":","1",".","0">>
SegPlat == <<"p","l","a","t">>
SegTty  == <<"t","t","y">>

LinkUsb      == <<SegDD, SegDev, SegUsb3, SegHub, SegIf1, SegTty>>
LinkUsbTwo   == <<SegDD, SegDev, SegUsb3, SegIf0, SegIf1, SegTty>>
LinkPlatform == <<SegDD, SegDev, SegPlat, SegTty>>
LinkNoIface  == <<SegDD, SegDev, SegUsb3, SegHub, SegTty>>
LinkIfaceLast == <<SegDD, SegDev, SegUsb3, SegIf1>>
\* what os.readlink can answer: a link target, or OSError (no such entry)
NoLink == <<>>
SysLinks == {NoLink, LinkUsb, LinkUsbTwo, LinkPlatform, LinkNoIface, LinkIfaceLast}

----------------------------------------------------------------------------
\* Process state.

VARIABLES
    pc,          \* position of the single thread of control
    nargs,       \* len(args): positional arguments left by the option parser
    options,     \* [mcutype, hasDevice, device, offset]
    bypath,      \* [present, entries]: the /dev/serial/by-path/ directory
    ttylink,     \* answer of os.readlink under /sys/class/tty/
    ttyname, pathname, port, buspath, extra_flags,   \* locals
    flags,       \* selector flags handed to call_dfuutil
    handles,     \* serial handles the process holds open
    exc,         \* exception in flight, "" when none
    excmsg,      \* str(e) of the exception in flight
    exitStatus,  \* exit status seen by the parent, NotExited while running
    seen,        \* paths os.path.exists found present (line 54)
    log          \* what the process did, in order

vars == <<pc, nargs, options, bypath, ttylink, ttyname, pathname, port,
          buspath, extra_flags, flags, handles, exc, excmsg, exitStatus,
          seen, log>>

NotExited == 0 - 1

MCUTYPES == {"atsam", "atsamd", "lpc176x", "stm32f1"}
\* -t values tried: the table's keys, one unknown key, and no -t (None)
McuInputs == MCUTYPES \cup {"avr", "None"}
Offsets == {"0x2000"}
BinFile == "out/klipper.bin"

Ev(ev, arg, res) == [ev |-> ev, arg |-> arg, res |-> res]

Init ==
    /\ pc = "main"
    /\ nargs \in 0..MaxArgs
    /\ \E t \in McuInputs, d \in Devices, h \in BOOLEAN, o \in Offsets :
          /\ h = FALSE => d = DevEmpty
          /\ options = [mcutype |-> t, hasDevice |-> h, device |-> d, offset |-> o]
    /\ \E pr \in BOOLEAN, es \in SUBSET Entries :
          /\ pr = FALSE => es = {}
          /\ bypath = [present |-> pr, entries |-> es]
    /\ ttylink \in SysLinks
    /\ ttyname = <<>> /\ pathname = <<>> /\ port = <<>> /\ buspath = <<>>
    /\ extra_flags = <<>>
    /\ flags = <<>>
    /\ handles = 0
    /\ exc = "" /\ excmsg = ""
    /\ exitStatus = NotExited
    /\ seen = {}
    /\ log = <<>>

Env == <<nargs, options, bypath, ttylink>>

\* raise: control leaves the flash_* functions for the handler's except clause
Raise(e, m) == /\ exc' = e /\ excmsg' = m /\ pc' = "except"

\* Main without the test of line 179
Main_NoDeviceCheck ==
    /\ pc = "main"
    /\ UNCHANGED <<Env, ttyname, pathname, port, buspath, flags, handles,
                   exc, excmsg, seen>>
    /\ IF nargs # 1 \/ options.mcutype \notin MCUTYPES
       THEN /\ log' = Append(log, Ev("stderr", <<"usage", "error">>, ""))
            /\ exitStatus' = 2 /\ pc' = "done" /\ UNCHANGED extra_flags
       ELSE /\ log' = Append(log, Ev("handler", <<options.mcutype>>, ""))
            /\ UNCHANGED exitStatus
            /\ IF options.mcutype \in {"atsam", "atsamd"}
               THEN extra_flags' = <<"-e">> /\ pc' = "bossac"
               ELSE extra_flags' = <<>> /\ pc' = "dfuutil"

\* main(): argument checks, then dispatch through MCUTYPES
Main ==
    /\ pc = "main"
    /\ UNCHANGED <<Env, ttyname, pathname, port, buspath, flags, handles,
                   exc, excmsg, seen>>
    /\ IF nargs # 1
       THEN /\ log' = Append(log, Ev("stderr", <<"usage", "Incorrect number of arguments">>, ""))
            /\ exitStatus' = 2 /\ pc' = "done" /\ UNCHANGED extra_flags
       ELSE IF options.mcutype \notin MCUTYPES
       THEN /\ log' = Append(log, Ev("stderr", <<"usage", "Not a valid mcu type">>, ""))
            /\ exitStatus' = 2 /\ pc' = "done" /\ UNCHANGED extra_flags
       ELSE IF ~options.hasDevice \/ options.device = <<>>
       THEN /\ log' = Append(log, Ev("stderr", <<"Please specify FLASH_DEVICE">>, ""))
            /\ exitStatus' = (0 - 1) % 256 /\ pc' = "done" /\ UNCHANGED extra_flags
       ELSE /\ log' = Append(log, Ev("handler", <<options.mcutype>>, ""))
            /\ UNCHANGED exitStatus
            /\ CASE options.mcutype = "atsam" ->
                      extra_flags' = <<"-e">> /\ pc' = "bossac"
                 [] options.mcutype = "atsamd" ->
                      extra_flags' = <<"--offset=" \o options.offset, "-R">> /\ pc' = "bossac"
                 [] options.mcutype = "lpc176x" ->
                      extra_flags' = <<>> /\ pc' = "dfuutil"
                 [] options.mcutype = "stm32f1" ->
                      extra_flags' = <<"-R", "-a", "2">> /\ pc' = "dfuutil"

\* translate_serial_to_tty, called at line 52
TranslateSerialToTty ==
    /\ pc = "bossac"
    /\ log' = Append(log, Ev("translate_serial_to_tty", <<Join(options.device)>>, ""))
    /\ UNCHANGED <<Env, port, buspath, extra_flags, flags, handles, exitStatus, seen>>
    /\ LET tty == Realpath(options.device)
           hits == {e \in bypath.entries : Realpath(ByPathDir \o e) = tty}
       IN IF ~bypath.present
          THEN \* os.listdir raises OSError
               Raise("OSError", "No such file or directory")
               /\ UNCHANGED <<ttyname, pathname>>
          ELSE /\ ttyname' = tty
               /\ IF hits = {} THEN pathname' = tty
                  ELSE \E e \in hits : pathname' = ByPathDir \o e
               /\ pc' = "eb_open"
               /\ UNCHANGED <<exc, excmsg>>

\* The handlers that flash through flash_bossac (lines 93-108)
ViaBossac == options.mcutype \in {"atsam", "atsamd"}

\* EbArg with line 85 passing the resolved device
EbArg_Canonical == IF ViaBossac THEN pathname ELSE Realpath(options.device)

\* Argument of enter_bootloader: pathname at line 53, device at line 85
EbArg == IF ViaBossac THEN pathname ELSE options.device
\* Where enter_bootloader returns to: line 54 or line 86
EbReturn == IF ViaBossac THEN "bossac_port" ELSE "dfu_call"

EbFrame == <<Env, ttyname, pathname, port, buspath, extra_flags, flags,
             exitStatus, seen>>

\* line 15: open(device, 'rb')
EbOpen ==
    /\ pc = "eb_open"
    /\ UNCHANGED <<EbFrame, exc, excmsg>>
    /\ \/ /\ handles' = handles + 1
          /\ log' = Append(log, Ev("enter_bootloader", <<Join(EbArg)>>, "opened"))
          /\ pc' = "eb_dtr_set"
       \/ /\ UNCHANGED handles
          /\ log' = Append(log, Ev("enter_bootloader", <<Join(EbArg)>>, "IOError"))
          /\ pc' = "eb_sleep"

\* line 17: ioctl TIOCMBIS; IOError goes to the except clause of line 23
EbDtrSet ==
    /\ pc = "eb_dtr_set"
    /\ UNCHANGED <<EbFrame, exc, excmsg, handles, log>>
    /\ pc' \in {"eb_getattr", "eb_sleep"}

\* line 18: termios.tcgetattr raises termios.error, which line 23 does not name
EbGetAttr ==
    /\ pc = "eb_getattr"
    /\ UNCHANGED <<EbFrame, handles, log>>
    /\ \/ pc' = "eb_setattr" /\ UNCHANGED <<exc, excmsg>>
       \/ Raise("termios.error", "Input/output error")

\* lines 19-20: termios.tcsetattr at B1200
EbSetAttr ==
    /\ pc = "eb_setattr"
    /\ UNCHANGED <<EbFrame, handles, log>>
    /\ \/ pc' = "eb_dtr_clear" /\ UNCHANGED <<exc, excmsg>>
       \/ Raise("termios.error", "Input/output error")

\* line 21: ioctl TIOCMBIC
EbDtrClear ==
    /\ pc = "eb_dtr_clear"
    /\ UNCHANGED <<EbFrame, exc, excmsg, handles, log>>
    /\ pc' \in {"eb_close", "eb_sleep"}

\* line 22: f.close()
EbClose ==
    /\ pc = "eb_close"
    /\ UNCHANGED <<EbFrame, exc, excmsg, log>>
    /\ handles' = handles - 1
    /\ pc' = "eb_sleep"

\* line 25: time.sleep(1.0), then return.  On the paths that skipped line
\* 22 the file object is still open during the sleep; the return drops the
\* frame's last reference to it and the interpreter's reference counting
\* closes it.
EbSleep ==
    /\ pc = "eb_sleep"
    /\ UNCHANGED <<EbFrame, exc, excmsg, log>>
    /\ handles' = 0
    /\ pc' = EbReturn

\* ChoosePort without the "not os.path.exists(pathname)" half of line 54
ChoosePort_TtyFirst(tty, path, present) ==
    IF tty \in present THEN tty ELSE path

\* lines 54-55: which path the flasher is pointed at
ChoosePort(tty, path, present) ==
    IF tty \in present /\ path \notin present THEN tty ELSE path

\* lines 54-55, with the filesystem as it is after the settle delay
BossacPort ==
    /\ pc = "bossac_port"
    /\ UNCHANGED <<Env, ttyname, pathname, buspath, extra_flags, flags,
                   handles, exc, excmsg, exitStatus, log>>
    /\ \E present \in SUBSET {ttyname, pathname} :
          /\ seen' = present
          /\ port' = ChoosePort(ttyname, pathname, present)
    /\ pc' = "bossac_call"

RECURSIVE JoinArgs(_)
\* " ".join(args)
JoinArgs(as) == IF as = <<>> THEN ""
                ELSE IF Len(as) = 1 THEN as[1]
                ELSE as[1] \o " " \o JoinArgs(Tail(as))

Contains(seq, x) == \E i \in 1..Len(seq) : seq[i] = x

\* line 56
BaseArgs(p) == <<"lib/bossac/bin/bossac", "-U", "-p", Join(p)>>
\* line 57
WriteArgs(p, extra) == BaseArgs(p) \o extra \o <<"-w", BinFile, "-v", "-b">>
\* line 64
ResetArgs(p) == BaseArgs(p) \o <<"-b", "-R">>
\* line 62
WantsReset(extra) == ~Contains(extra, "-R")

\* Exit statuses subprocess.call can return, and the launch failure
ToolResults == {"0", "1", "OSError"}

\* BossacCall without the test of lines 60-61
BossacCall_NoRaise ==
    /\ pc = "bossac_call"
    /\ UNCHANGED <<Env, ttyname, pathname, port, buspath, extra_flags, flags,
                   handles, exitStatus, seen>>
    /\ \E res \in ToolResults :
          /\ log' = log \o << Ev("stderr", <<JoinArgs(WriteArgs(port, extra_flags))>>, ""),
                              Ev("call", WriteArgs(port, extra_flags), res) >>
          /\ IF res = "OSError"
             THEN Raise("OSError", "cannot execute")
             ELSE /\ pc' = IF WantsReset(extra_flags) THEN "bossac_reset" ELSE "return"
                  /\ UNCHANGED <<exc, excmsg>>

\* lines 56-62: echo the command, run bossac, look at its exit status
BossacCall ==
    /\ pc = "bossac_call"
    /\ UNCHANGED <<Env, ttyname, pathname, port, buspath, extra_flags, flags,
                   handles, exitStatus, seen>>
    /\ \E res \in ToolResults :
          /\ log' = log \o << Ev("stderr", <<JoinArgs(WriteArgs(port, extra_flags))>>, ""),
                              Ev("call", WriteArgs(port, extra_flags), res) >>
          /\ CASE res = "OSError" -> Raise("OSError", "cannot execute")
               [] res = "0" -> /\ pc' = IF WantsReset(extra_flags)
                                        THEN "bossac_reset" ELSE "return"
                               /\ UNCHANGED <<exc, excmsg>>
               [] OTHER -> Raise("error", "Error running bossac")

\* What subprocess.check_output can do: return, raise CalledProcessError
\* on a non-zero status, raise OSError when the program cannot be started
ResetResults == {"0", "CalledProcessError", "OSError"}

\* lines 63-68: the reset call
BossacReset ==
    /\ pc = "bossac_reset"
    /\ UNCHANGED <<Env, ttyname, pathname, port, buspath, extra_flags, flags,
                   handles, exitStatus, seen>>
    /\ \E res \in ResetResults :
          /\ log' = Append(log, Ev("check_output", ResetArgs(port), res))
          /\ IF res = "OSError"
             THEN Raise("OSError", "cannot execute")
             ELSE pc' = "return" /\ UNCHANGED <<exc, excmsg>>

\* DfuRoute with a pattern that knows lower-case digits only
DfuRoute_LowerHex ==
    /\ pc = "dfuutil"
    /\ UNCHANGED <<Env, ttyname, pathname, port, buspath, extra_flags,
                   handles, exc, excmsg, exitStatus, seen, log>>
    /\ IF /\ HexFmtMatch(Strip(options.device))
          /\ AllIn(Strip(options.device), Digits \cup {"a","b","c","d","e","f",":"})
       THEN /\ flags' = <<"-d", "," \o Join(Strip(options.device))>> \o extra_flags
            /\ pc' = "dfu_call"
       ELSE /\ UNCHANGED flags
            /\ pc' = "usb_path"

\* lines 80-83: a vendor:product pair goes straight to dfu-util
DfuRoute ==
    /\ pc = "dfuutil"
    /\ UNCHANGED <<Env, ttyname, pathname, port, buspath, extra_flags,
                   handles, exc, excmsg, exitStatus, seen, log>>
    /\ IF HexFmtMatch(Strip(options.device))
       THEN /\ flags' = <<"-d", "," \o Join(Strip(options.device))>> \o extra_flags
            /\ pc' = "dfu_call"
       ELSE /\ UNCHANGED flags
            /\ pc' = "usb_path"

\* translate_serial_to_usb_path (lines 37-48), called at line 84
TranslateSerialToUsbPath ==
    /\ pc = "usb_path"
    /\ UNCHANGED <<Env, ttyname, pathname, port, extra_flags, handles,
                   exitStatus, seen>>
    /\ LET fname == Basename(Realpath(options.device))
       IN /\ log' = Append(log, Ev("translate_serial_to_usb_path",
                                   <<Join(options.device), Join(fname)>>, ""))
          /\ IF ttylink = NoLink
             THEN Raise("error", "Unable to find tty device")
                  /\ UNCHANGED <<buspath, flags>>
             ELSE IF ~TtyPathMatches(ttylink)
             THEN Raise("error", "Unable to find tty usb device")
                  /\ UNCHANGED <<buspath, flags>>
             ELSE /\ buspath' = TtyPathGroup(ttylink)
                  /\ flags' = <<"-p", Join(buspath')>> \o extra_flags
                  /\ pc' = "eb_open"
                  /\ UNCHANGED <<exc, excmsg>>

\* line 72
DfuArgs(fl) == <<"dfu-util">> \o fl \o <<"-D", BinFile>>

\* call_dfuutil (lines 71-76)
CallDfuutil ==
    /\ pc = "dfu_call"
    /\ UNCHANGED <<Env, ttyname, pathname, port, buspath, extra_flags, flags,
                   handles, exitStatus, seen>>
    /\ \E res \in ToolResults :
          /\ log' = log \o << Ev("stderr", <<JoinArgs(DfuArgs(flags))>>, ""),
                              Ev("call", DfuArgs(flags), res) >>
          /\ CASE res = "OSError" -> Raise("OSError", "cannot execute")
               [] res = "0" -> pc' = "return" /\ UNCHANGED <<exc, excmsg>>
               [] OTHER -> Raise("error", "Error running dfu-util")

\* The text each handler writes for a caught error (lines 97, 132, 151)
FailureText(t, d, m) ==
    CASE t = "lpc176x" -> <<"SMOOTHIE_HELP", d, m>>
      [] t = "stm32f1" -> <<"STM32F1_HELP", d, m, d>>
      [] OTHER -> <<"Failed to flash to %s: %s", d, m>>

\* Exceptions the handlers' except clauses name (lines 96, 105, 131, 150)
Caught == {"error"}

\* The flash function returned: the handler and main return, exit status 0
HandlerReturn ==
    /\ pc = "return"
    /\ UNCHANGED <<Env, ttyname, pathname, port, buspath, extra_flags, flags,
                   handles, exc, excmsg, seen, log>>
    /\ exitStatus' = 0
    /\ pc' = "done"

\* An exception reached the handler's try statement: a caught one is
\* printed and the process exits -1; any other leaves through main and the
\* interpreter prints the traceback and exits 1
HandlerExcept ==
    /\ pc = "except"
    /\ UNCHANGED <<Env, ttyname, pathname, port, buspath, extra_flags, flags,
                   handles, exc, excmsg, seen>>
    /\ IF exc \in Caught
       THEN /\ log' = Append(log, Ev("stderr",
                        FailureText(options.mcutype, Join(options.device), excmsg), ""))
            /\ exitStatus' = (0 - 1) % 256
       ELSE /\ log' = Append(log, Ev("traceback", <<exc, excmsg>>, ""))
            /\ exitStatus' = 1
    /\ pc' = "done"

Next ==
    \/ Main
    \/ TranslateSerialToTty
    \/ EbOpen
    \/ EbDtrSet
    \/ EbGetAttr
    \/ EbSetAttr
    \/ EbDtrClear
    \/ EbClose
    \/ EbSleep
    \/ BossacPort
    \/ BossacCall
    \/ BossacReset
    \/ DfuRoute
    \/ TranslateSerialToUsbPath
    \/ CallDfuutil
    \/ HandlerReturn
    \/ HandlerExcept

Spec == Init /\ [][Next]_vars

TypeOK ==
    /\ pc \in {"main", "bossac", "eb_open", "eb_dtr_set", "eb_getattr",
               "eb_setattr", "eb_dtr_clear", "eb_close", "eb_sleep",
               "bossac_port", "bossac_call", "bossac_reset", "dfuutil",
               "usb_path", "dfu_call", "return", "except", "done"}
    /\ handles \in 0..1
    /\ exitStatus \in {NotExited, 0, 1, 2, 255}
    /\ exc \in {"", "error", "OSError", "termios.error"}

----------------------------------------------------------------------------
\* Properties.

ToolEvents == {"call", "check_output"}
Idx == 1..Len(log)
ToolIdx == {i \in Idx : log[i].ev \in ToolEvents}
EvIdx(ev) == {i \in Idx : log[i].ev = ev}
HandlerRan == EvIdx("handler") # {}
LastEv == log[Len(log)]

\* C1: in a run of the atsam or atsamd handler where the primary bossac
\* invocation returns a non-zero status, nothing is invoked after that
\* invocation (no reset call, no retry), and the process ends with failure
\* status right after printing the device and the error string.
C1_PrimaryFailureEndsRun ==
    ViaBossac =>
      \A i \in EvIdx("call") :
         log[i].res = "1" =>
            /\ \A j \in ToolIdx : j <= i
            /\ Cardinality(ToolIdx) = 1
            /\ pc \in {"except", "done"}
            /\ pc = "done" =>
                  /\ exitStatus = 255
                  /\ LastEv.ev = "stderr"
                  /\ LastEv.arg = <<"Failed to flash to %s: %s",
                                    Join(options.device), "Error running bossac">>

C1_Witness ==
    /\ pc = "done" /\ ViaBossac /\ exitStatus = 255
    /\ \E i \in EvIdx("call") : log[i].res = "1"

\* C2: in flash_bossac, when the primary invocation exits zero: without -R
\* among the extra flags exactly one reset invocation follows and the run
\* ends as a success however that invocation fails; with -R (atsamd) no
\* further invocation is made.
C2_ResetIsBestEffort ==
    (pc = "done" /\ ViaBossac /\ \E i \in EvIdx("call") : log[i].res = "0") =>
       IF ~Contains(extra_flags, "-R")
       THEN /\ Cardinality(EvIdx("check_output")) = 1
            /\ Cardinality(EvIdx("call")) = 1
            /\ \A i \in EvIdx("call"), j \in EvIdx("check_output") : i < j
            /\ exitStatus = 0
       ELSE Cardinality(ToolIdx) = 1

\* C3: translate_serial_to_tty never fails: whatever the device and the
\* state of /dev/serial/by-path/ (absent included) it returns a pair, and
\* without a match the stable path of the pair is the canonical path.
C3_StablePathNeverFails ==
    (log # <<>> /\ LastEv.ev = "translate_serial_to_tty") =>
       /\ pc = "eb_open"
       /\ exc = ""
       /\ ttyname = Realpath(options.device)
       /\ (~bypath.present \/ \A e \in bypath.entries : EntryTarget(e) # ttyname)
             => pathname = ttyname

\* C4: a run of a handler ends either in silent success or with the
\* handler's message followed by a non-zero exit; no error leaves the
\* handler unreported.
C4_ErrorsCaughtAtHandler ==
    (pc = "done" /\ HandlerRan) =>
       \/ /\ exitStatus = 0
          /\ \A i \in EvIdx("stderr") : Len(log[i].arg) = 1
       \/ /\ exitStatus = 255
          /\ LastEv.ev = "stderr"
          /\ LastEv.arg = FailureText(options.mcutype, Join(options.device), excmsg)

DfuHandler == HandlerRan /\ ~ViaBossac

\* C5: in flash_dfuutil a device that matches 4 hex digits, colon, 4 hex
\* digits goes down the vendor:product path: dfu-util is invoked exactly
\* once with "-d ,<pair>", and neither translate_serial_to_usb_path nor
\* enter_bootloader is performed.
C5_VidPidRouted ==
    (DfuHandler /\ HexFmtMatch(options.device)) =>
       /\ EvIdx("translate_serial_to_usb_path") = {}
       /\ EvIdx("enter_bootloader") = {}
       /\ pc \in {"dfuutil", "dfu_call", "return", "except", "done"}
       /\ Cardinality(ToolIdx) <= 1
       /\ pc \in {"return", "except", "done"} => Cardinality(EvIdx("call")) = 1
       /\ \A i \in EvIdx("call") :
             log[i].arg = <<"dfu-util", "-d", "," \o Join(Strip(options.device))>>
                          \o extra_flags \o <<"-D", BinFile>>

C5_Witness ==
    /\ pc = "done" /\ DfuHandler /\ options.device = DevVidPidUp
    /\ Cardinality(EvIdx("call")) = 1

InvalidCommandLine ==
    \/ nargs # 1
    \/ options.mcutype \notin MCUTYPES
    \/ ~options.hasDevice

\* C6: with an invalid command line (not exactly one positional argument,
\* an unknown mcu type, or no device) the process exits with failure status
\* before any device interaction: no handler call, no path resolution, no
\* bootloader trigger, no external tool.
C6_InvalidCommandLineExits ==
    InvalidCommandLine =>
       /\ pc \in {"main", "done"}
       /\ \A i \in Idx : log[i].ev = "stderr"
       /\ handles = 0
       /\ pc = "done" => exitStatus \in {2, 255}

C6_Witness ==
    /\ pc = "done" /\ ~options.hasDevice /\ nargs = 1
    /\ options.mcutype \in MCUTYPES /\ exitStatus = 255

\* C7: in flash_dfuutil with a device that is not a vendor:product pair the
\* order is: topology resolution, bootloader trigger on the device as
\* given (not its canonical path), one dfu-util invocation with "-p
\* <buspath>"; when resolution fails (no sysfs link, or no usbN match)
\* there is no trigger and no dfu-util invocation.
C7_SerialDfuOrder ==
    (DfuHandler /\ ~HexFmtMatch(Strip(options.device))) =>
       /\ \A i \in EvIdx("enter_bootloader") :
             /\ log[i].arg = <<Join(options.device)>>
             /\ \E j \in EvIdx("translate_serial_to_usb_path") : j < i
       /\ \A i \in EvIdx("call") :
             /\ \E j \in EvIdx("enter_bootloader") : j < i
             /\ log[i].arg = <<"dfu-util", "-p", Join(TtyPathGroup(ttylink))>>
                             \o extra_flags \o <<"-D", BinFile>>
       /\ Cardinality(EvIdx("translate_serial_to_usb_path")) <= 1
       /\ Cardinality(EvIdx("enter_bootloader")) <= 1
       /\ Cardinality(ToolIdx) <= 1
       /\ pc = "return" => Cardinality(EvIdx("call")) = 1
       /\ (ttylink = NoLink \/ ~TtyPathMatches(ttylink)) =>
             /\ EvIdx("enter_bootloader") = {}
             /\ ToolIdx = {}
             /\ pc \in {"dfuutil", "usb_path", "except", "done"}
             /\ pc = "done" => exitStatus = 255

C7_Witness ==
    /\ pc = "done" /\ DfuHandler /\ options.device = DevById
    /\ ttylink = LinkUsbTwo
    /\ \E i \in EvIdx("call") : log[i].res = "0"

C7_WitnessNoLink ==
    /\ pc = "done" /\ DfuHandler /\ options.device = DevTty0
    /\ ttylink = LinkPlatform /\ exitStatus = 255

\* C8: the bootloader trigger is best-effort: a failure while opening or
\* signalling the device never aborts the run, so every run that started
\* the trigger goes on to the primary tool invocation.
C8_TriggerNeverAborts ==
    (pc \in {"except", "done"} /\ EvIdx("enter_bootloader") # {}) =>
       \E i \in EvIdx("call"), j \in EvIdx("enter_bootloader") : j < i

InEnterBootloader == pc \in {"eb_open", "eb_dtr_set", "eb_getattr",
                             "eb_setattr", "eb_dtr_clear", "eb_close", "eb_sleep"}

\* C9: the handle opened by enter_bootloader is closed inside
\* enter_bootloader on every path, a failing control-line or baud-rate step
\* included: once control has left enter_bootloader, and whenever an
\* external tool is invoked, the process holds no open serial handle.
C9_NoHandleHeld == ~InEnterBootloader => handles = 0

\* C10: flash_bossac triggers the bootloader on the stable path; the port
\* of the primary invocation is chosen from the filesystem as it is after
\* the trigger: the canonical path when it exists and the stable path does
\* not, the stable path otherwise (also when neither exists); the reset
\* invocation uses the port of the primary invocation.
C10_PortChoice ==
    (ViaBossac /\ HandlerRan) =>
       /\ \A i \in EvIdx("enter_bootloader") : log[i].arg = <<Join(pathname)>>
       /\ \A i \in EvIdx("call") :
             /\ \E j \in EvIdx("enter_bootloader") : j < i
             /\ log[i].arg[3] = "-p"
             /\ log[i].arg[4] = IF ttyname \in seen /\ pathname \notin seen
                                THEN Join(ttyname) ELSE Join(pathname)
             /\ log[i].arg[4] = Join(port)
       /\ \A j \in EvIdx("check_output") :
             \E i \in EvIdx("call") :
                /\ i < j
                /\ log[j].arg[3] = "-p"
                /\ log[j].arg[4] = log[i].arg[4]
                /\ log[j].arg = SubSeq(log[i].arg, 1, 4) \o <<"-b", "-R">>

C10_Witness ==
    /\ pc = "done" /\ ViaBossac
    /\ ttyname # pathname /\ seen = {ttyname} /\ port = ttyname
    /\ EvIdx("check_output") # {}

C10_WitnessNeither ==
    /\ pc = "done" /\ ViaBossac
    /\ ttyname # pathname /\ seen = {} /\ port = pathname
    /\ EvIdx("call") # {}

====
